---- MODULE Spec2Model ----
(***************************************************************************)
(* ColorMotion: the two graph builders of colormotion/nn/model.py          *)
(* (previous_frame_input, l_to_ab) and the frame-extraction script         *)
(* scripts/prepare_dataset.py.                                             *)
(*                                                                         *)
(* A builder is a straight-line program of layer calls.  The model runs it *)
(* one call at a time: every call appends a node (the layer, the nodes it  *)
(* consumes, its output shape as Keras computes it) and rebinds a Python   *)
(* variable.  A compiled graph can then be evaluated on a batch.           *)
(***************************************************************************)
EXTENDS Integers, Sequences, FiniteSets, TLC

VARIABLES builder, pc, nodes, env, model, failed, prediction,
          files, destination, run, finished

graphVars == <<builder, pc, nodes, env, model, failed, prediction>>
fsVars == <<files, destination, run, finished>>
vars == <<builder, pc, nodes, env, model, failed, prediction,
          files, destination, run, finished>>

-----------------------------------------------------------------------------
(* Bounds of the model.                                                    *)

\* batch sizes a compiled graph is evaluated on: 1..MaxBatch
MaxBatch == 3
\* pre-activation values fed to the last convolution: -MaxPre..MaxPre
MaxPre == 6
\* source files hold at most MaxFileLen bytes
MaxFileLen == 1
\* a video holds at most MaxFrames frames
MaxFrames == 2
\* the script is run at most MaxRuns times
MaxRuns == 3

-----------------------------------------------------------------------------
(* Keras layers: constructors and their defaults.                          *)

None == "None"

Conv2D_defaults ==
    [strides |-> 1, padding |-> "valid", dilation_rate |-> 1,
     activation |-> None, kernel_initializer |-> "glorot_uniform",
     bias_initializer |-> "zeros"]

\* Conv2D(filters, **kwargs); kernel_size is passed in kwargs
Conv2D(filters, kwargs) ==
    [kind |-> "Conv2D", filters |-> filters] @@ kwargs @@ Conv2D_defaults

Conv2DTranspose(filters, kwargs) ==
    [kind |-> "Conv2DTranspose", filters |-> filters] @@ kwargs @@ Conv2D_defaults

Input(shape, name) == [kind |-> "Input", shape |-> shape, input_name |-> name]

BatchNormalization == [kind |-> "BatchNormalization"]

\* AveragePooling2D(): pool_size 2, strides = pool_size, padding 'valid'
AveragePooling2D == [kind |-> "AveragePooling2D", pool_size |-> 2, strides |-> 2]

Add == [kind |-> "Add"]

Activation(fn) == [kind |-> "Activation", activation |-> fn]

\* alpha in thousandths
LeakyReLU(alpha) == [kind |-> "LeakyReLU", alpha |-> alpha]

\* Lambda(lambda x: factor * x), factor in thousandths
Lambda(factor) == [kind |-> "Lambda", factor |-> factor]

\* colormotion.nn.layers.Scale(factor)
Scale(factor) == [kind |-> "Scale", factor |-> factor]

\* one call of the builder: target = layer(args), under a source comment
Stmt(name, target, layer, args) ==
    [name |-> name, target |-> target, layer |-> layer, args |-> args]

\* the statements of one "# convN" section of the source
Block(n, stmts) == [i \in 1..Len(stmts) |-> [block |-> n] @@ stmts[i]]

-----------------------------------------------------------------------------
(* previous_frame_input()                                                  *)

\* Conv2D(filters, 3, padding='same', activation='relu', **kwargs)
Conv2D_default(filters, kwargs) ==
    Conv2D(filters, kwargs @@ [kernel_size |-> 3, padding |-> "same", activation |-> "relu"])

custom_initializer ==
    [kernel_initializer |-> "RandomNormal(stddev=.01)", bias_initializer |-> "ones"]

no_kwargs == <<>>

previous_frame_input_inputs ==
    Block(0, <<
        Stmt("state_input", "state_input", Input(<<256, 256, 3>>, "state_input"), <<>>),
        Stmt("l_input", "l_input", Input(<<256, 256, 1>>, "grayscale_input"), <<>>) >>)

\* x = AveragePooling2D()(conv1_2norm)
pool1_of_norm == Stmt("pool1", "x", AveragePooling2D, <<"conv1_2norm">>)

\* x = AveragePooling2D()(x), after conv1_2norm = BatchNormalization()(x)
pool1 == Stmt("pool1", "x", AveragePooling2D, <<"x">>)

previous_frame_input_conv1 ==
    Block(1, <<
        Stmt("conv1_1", "state", Conv2D(64, [kernel_size |-> 3, padding |-> "same"]), <<"state_input">>),
        Stmt("conv1_1", "x", Conv2D(64, [kernel_size |-> 3, padding |-> "same"]), <<"l_input">>),
        Stmt("conv1_1", "x", Add, <<"state", "x">>),
        Stmt("conv1_1", "x", Activation("relu"), <<"x">>),
        Stmt("conv1_2", "x", Conv2D_default(64, no_kwargs), <<"x">>),
        Stmt("conv1_2norm", "conv1_2norm", BatchNormalization, <<"x">>),
        pool1 >>)

previous_frame_input_conv2 ==
    Block(2, <<
        Stmt("conv2_1", "x", Conv2D_default(128, no_kwargs), <<"x">>),
        Stmt("conv2_2", "x", Conv2D_default(128, no_kwargs), <<"x">>),
        Stmt("conv2_2norm", "conv2_2norm", BatchNormalization, <<"x">>),
        Stmt("pool2", "x", AveragePooling2D, <<"x">>) >>)

previous_frame_input_conv3 ==
    Block(3, <<
        Stmt("conv3_1", "x", Conv2D_default(256, no_kwargs), <<"x">>),
        Stmt("conv3_2", "x", Conv2D_default(256, no_kwargs), <<"x">>),
        Stmt("conv3_3", "x", Conv2D_default(256, no_kwargs), <<"x">>),
        Stmt("conv3_3_norm", "conv3_3_norm", BatchNormalization, <<"x">>),
        Stmt("pool3", "x", AveragePooling2D, <<"x">>) >>)

previous_frame_input_conv4 ==
    Block(4, <<
        Stmt("conv4_1", "x", Conv2D_default(512, no_kwargs), <<"x">>),
        Stmt("conv4_2", "x", Conv2D_default(512, no_kwargs), <<"x">>),
        Stmt("conv4_3", "x", Conv2D_default(512, no_kwargs), <<"x">>),
        Stmt("conv4_3norm", "x", BatchNormalization, <<"x">>) >>)

\* x = Conv2D_default(512)(x)
conv5_1_undilated == Stmt("conv5_1", "x", Conv2D_default(512, no_kwargs), <<"x">>)

\* x = Conv2D_default(512, dilation_rate=2)(x)
conv5_1 == Stmt("conv5_1", "x", Conv2D_default(512, [dilation_rate |-> 2]), <<"x">>)

previous_frame_input_conv5 ==
    Block(5, <<
        conv5_1,
        Stmt("conv5_2", "x", Conv2D_default(512, [dilation_rate |-> 2]), <<"x">>),
        Stmt("conv5_3", "x", Conv2D_default(512, [dilation_rate |-> 2]), <<"x">>),
        Stmt("conv5_3norm", "x", BatchNormalization, <<"x">>) >>)

previous_frame_input_conv6 ==
    Block(6, <<
        Stmt("conv6_1", "x", Conv2D_default(512, [dilation_rate |-> 2]), <<"x">>),
        Stmt("conv6_2", "x", Conv2D_default(512, [dilation_rate |-> 2]), <<"x">>),
        Stmt("conv6_3", "x", Conv2D_default(512, [dilation_rate |-> 2]), <<"x">>),
        Stmt("conv6_3norm", "x", BatchNormalization, <<"x">>) >>)

previous_frame_input_conv7 ==
    Block(7, <<
        Stmt("conv7_1", "x", Conv2D_default(512, no_kwargs), <<"x">>),
        Stmt("conv7_2", "x", Conv2D_default(512, no_kwargs), <<"x">>),
        Stmt("conv7_3", "x", Conv2D_default(512, no_kwargs), <<"x">>),
        Stmt("conv7_3norm", "x", BatchNormalization, <<"x">>) >>)

previous_frame_input_conv8 ==
    Block(8, <<
        Stmt("conv8_1", "x",
             Conv2DTranspose(256, [kernel_size |-> 4, padding |-> "same", strides |-> 2]), <<"x">>),
        Stmt("shortcut", "shortcut",
             Conv2D(256, [kernel_size |-> 3, padding |-> "same"] @@ custom_initializer),
             <<"conv3_3_norm">>),
        Stmt("conv8_1", "x", Add, <<"x", "shortcut">>),
        Stmt("conv8_1", "x", Activation("relu"), <<"x">>),
        Stmt("conv8_2", "x", Conv2D_default(256, no_kwargs), <<"x">>),
        Stmt("conv8_3", "x", Conv2D_default(256, no_kwargs), <<"x">>),
        Stmt("conv8_3norm", "x", BatchNormalization, <<"x">>) >>)

\* x = Conv2DTranspose(128, 4, padding='same', **custom_initializer)(x)
conv9_1_unstrided ==
    Stmt("conv9_1", "x",
         Conv2DTranspose(128, [kernel_size |-> 4, padding |-> "same"] @@ custom_initializer),
         <<"x">>)

\* x = Conv2DTranspose(128, 4, padding='same', strides=2, **custom_initializer)(x)
conv9_1 ==
    Stmt("conv9_1", "x",
         Conv2DTranspose(128, [kernel_size |-> 4, padding |-> "same", strides |-> 2]
                              @@ custom_initializer), <<"x">>)

previous_frame_input_conv9 ==
    Block(9, <<
        conv9_1,
        Stmt("shortcut", "shortcut",
             Conv2D(128, [kernel_size |-> 3, padding |-> "same"] @@ custom_initializer),
             <<"conv2_2norm">>),
        Stmt("conv9_1", "x", Add, <<"x", "shortcut">>),
        Stmt("conv9_1", "x", Activation("relu"), <<"x">>),
        Stmt("conv9_2", "x", Conv2D_default(128, custom_initializer), <<"x">>),
        Stmt("conv9_3", "x", Conv2D_default(128, no_kwargs), <<"x">>),
        Stmt("conv9_3norm", "x", BatchNormalization, <<"x">>) >>)

\* shortcut = Conv2D(64, 3, padding='same', **custom_initializer)(conv1_2norm)
conv10_shortcut_unadapted ==
    Stmt("shortcut", "shortcut",
         Conv2D(64, [kernel_size |-> 3, padding |-> "same"] @@ custom_initializer),
         <<"conv1_2norm">>)

\* shortcut = Conv2D(128, 3, padding='same', **custom_initializer)(conv1_2norm)
conv10_shortcut ==
    Stmt("shortcut", "shortcut",
         Conv2D(128, [kernel_size |-> 3, padding |-> "same"] @@ custom_initializer),
         <<"conv1_2norm">>)

\* x = Conv2D(2, 1)(x)
conv10_ab_linear == Stmt("conv10_ab", "x", Conv2D(2, [kernel_size |-> 1]), <<"x">>)

\* x = Conv2D(2, 3, activation='tanh')(x)
conv10_ab_kernel3 ==
    Stmt("conv10_ab", "x", Conv2D(2, [kernel_size |-> 3, activation |-> "tanh"]), <<"x">>)

\* x = Conv2D(2, 1, activation='tanh')(x)
conv10_ab ==
    Stmt("conv10_ab", "x", Conv2D(2, [kernel_size |-> 1, activation |-> "tanh"]), <<"x">>)

previous_frame_input_conv10 ==
    Block(10, <<
        Stmt("conv10_1", "x",
             Conv2DTranspose(128, [kernel_size |-> 4, padding |-> "same", strides |-> 2]
                                  @@ custom_initializer), <<"x">>),
        conv10_shortcut,
        Stmt("conv10_1", "x", Add, <<"x", "shortcut">>),
        Stmt("conv10_1", "x", Activation("relu"), <<"x">>),
        Stmt("conv10_2", "x",
             Conv2D(128, [kernel_size |-> 3, padding |-> "same"] @@ custom_initializer), <<"x">>),
        Stmt("conv10_2", "x", LeakyReLU(200), <<"x">>),
        conv10_ab,
        Stmt("conv10_ab", "x", Scale(100), <<"x">>) >>)

\* m = Model(inputs=[state_input, l_input], outputs=x); m.compile(...)
previous_frame_input_compile ==
    Block(11, <<
        Stmt("Model", "m", [kind |-> "Model", inputs |-> <<"state_input", "l_input">>,
                            outputs |-> "x"], <<>>),
        Stmt("compile", "m", [kind |-> "compile", loss |-> "mean_squared_error",
                              optimizer |-> "adam", metrics |-> <<"accuracy">>], <<>>) >>)

previous_frame_input ==
    previous_frame_input_inputs \o previous_frame_input_conv1
    \o previous_frame_input_conv2 \o previous_frame_input_conv3
    \o previous_frame_input_conv4 \o previous_frame_input_conv5
    \o previous_frame_input_conv6 \o previous_frame_input_conv7
    \o previous_frame_input_conv8 \o previous_frame_input_conv9
    \o previous_frame_input_conv10 \o previous_frame_input_compile

-----------------------------------------------------------------------------
(* l_to_ab()                                                               *)

\* m.add(Conv2D(filter_count, kernel_size=3, padding='same', activation='relu',
\*              **parameters)) for each parameters, then m.add(BatchNormalization())
conv_block(filter_count, convolution_parameters) ==
    [i \in 1..Len(convolution_parameters) |->
        Stmt("conv", "m",
             Conv2D(filter_count,
                    convolution_parameters[i]
                    @@ [kernel_size |-> 3, padding |-> "same", activation |-> "relu"]),
             <<"m">>)]
    \o << Stmt("norm", "m", BatchNormalization, <<"m">>) >>

l_to_ab_Sequential ==
    Block(0, << Stmt("Sequential", "m", [kind |-> "Sequential"], <<>>) >>)

l_to_ab_conv1 ==
    Block(1, conv_block(64, << [input_shape |-> <<224, 224, 1>>], [strides |-> 2] >>))

\* conv_block(128, [{'strides': 2}, {}])
l_to_ab_conv2_first_strided ==
    Block(2, conv_block(128, << [strides |-> 2], no_kwargs >>))

l_to_ab_conv2 ==
    Block(2, conv_block(128, << no_kwargs, [strides |-> 2] >>))

l_to_ab_conv3 ==
    Block(3, conv_block(256, << no_kwargs, no_kwargs, [strides |-> 2] >>))

l_to_ab_conv4 ==
    Block(4, conv_block(512, << no_kwargs, no_kwargs, no_kwargs >>))

l_to_ab_conv5 ==
    Block(5, conv_block(512, << [dilation_rate |-> 2], [dilation_rate |-> 2],
                                [dilation_rate |-> 2] >>))

l_to_ab_conv6 ==
    Block(6, conv_block(512, << [dilation_rate |-> 2], [dilation_rate |-> 2],
                                [dilation_rate |-> 2] >>))

l_to_ab_conv7 ==
    Block(7, conv_block(512, << no_kwargs, no_kwargs, no_kwargs >>))

l_to_ab_conv8 ==
    Block(8, conv_block(256, << [kernel_size |-> 4, strides |-> 2], no_kwargs, no_kwargs >>))

l_to_ab_softmax ==
    Block(9, <<
        Stmt("softmax", "m", Conv2D(313, [kernel_size |-> 1, padding |-> "same"]), <<"m">>),
        Stmt("softmax", "m", Lambda(2606), <<"m">>),
        Stmt("softmax", "m", Activation("softmax"), <<"m">>) >>)

l_to_ab_decoding ==
    Block(10, <<
        Stmt("decoding", "m", Conv2D(2, [kernel_size |-> 1, padding |-> "same"]), <<"m">>),
        Stmt("compile", "m", [kind |-> "compile", loss |-> "mean_squared_error",
                              optimizer |-> "adam", metrics |-> <<"accuracy">>], <<>>) >>)

l_to_ab ==
    l_to_ab_Sequential \o l_to_ab_conv1 \o l_to_ab_conv2 \o l_to_ab_conv3
    \o l_to_ab_conv4 \o l_to_ab_conv5 \o l_to_ab_conv6 \o l_to_ab_conv7
    \o l_to_ab_conv8 \o l_to_ab_softmax \o l_to_ab_decoding

-----------------------------------------------------------------------------
(* Output shapes, as Keras computes them from the layer's parameters.      *)

\* one spatial dimension of a convolution's output
conv_output_length(n, layer) ==
    IF layer.padding = "same"
    THEN (n + layer.strides - 1) \div layer.strides
    ELSE (n - ((layer.kernel_size - 1) * layer.dilation_rate + 1)) \div layer.strides + 1

\* one spatial dimension of a transposed convolution's output
deconv_output_length(n, layer) ==
    IF layer.padding = "same"
    THEN n * layer.strides
    ELSE n * layer.strides
         + (IF layer.kernel_size > layer.strides
            THEN layer.kernel_size - layer.strides ELSE 0)

Conv2D_output_shape(layer, shape) ==
    << conv_output_length(shape[1], layer), conv_output_length(shape[2], layer),
       layer.filters >>

Conv2DTranspose_output_shape(layer, shape) ==
    << deconv_output_length(shape[1], layer), deconv_output_length(shape[2], layer),
       layer.filters >>

AveragePooling2D_output_shape(layer, shape) ==
    << (shape[1] - layer.pool_size) \div layer.strides + 1,
       (shape[2] - layer.pool_size) \div layer.strides + 1,
       shape[3] >>

-----------------------------------------------------------------------------
(* Values, in thousandths.                                                 *)

\* tanh of a whole number of units, rounded to thousandths
tanh(v) ==
    LET a == (IF v < 0 THEN -v ELSE v) \div 1000
        t == CASE a = 0 -> 0 [] a = 1 -> 762 [] a = 2 -> 964
               [] a = 3 -> 995 [] a = 4 -> 999 [] OTHER -> 1000
    IN IF v < 0 THEN -t ELSE t

Activate(fn, v) ==
    CASE fn = "relu" -> IF v > 0 THEN v ELSE 0
      [] fn = "tanh" -> tanh(v)
      [] fn = None -> v

\* Scale(factor).call(x): every element multiplied by factor
Scale_call(factor, v) == factor * v

\* The value of one element of node n's output, when the nearest stage at or
\* before n that is not elementwise (a convolution, a normalization, a
\* pooling, an add, an input) produces z there.
RECURSIVE Eval(_, _)
Eval(n, z) ==
    LET l == nodes[n].layer
        k == l.kind
    IN CASE k = "Scale" -> Scale_call(l.factor, Eval(nodes[n].inputs[1], z))
         [] k = "Lambda" -> (l.factor * Eval(nodes[n].inputs[1], z)) \div 1000
         [] k = "Activation" -> Activate(l.activation, Eval(nodes[n].inputs[1], z))
         [] k = "LeakyReLU" ->
              LET v == Eval(nodes[n].inputs[1], z)
              IN IF v >= 0 THEN v ELSE -((l.alpha * (-v)) \div 1000)
         [] k \in {"Conv2D", "Conv2DTranspose"} -> Activate(l.activation, z)
         [] OTHER -> z

-----------------------------------------------------------------------------
(* Running a builder.                                                      *)

Builders == {"previous_frame_input", "l_to_ab"}

PyVars == {"state_input", "l_input", "state", "x", "conv1_2norm", "conv2_2norm",
           "conv3_3_norm", "shortcut", "m"}

Program == IF builder = "previous_frame_input" THEN previous_frame_input ELSE l_to_ab

NoModel == [created |-> FALSE, sequential |-> FALSE, inputs |-> <<>>, output |-> 0,
            compiled |-> FALSE, loss |-> None, optimizer |-> None, metrics |-> <<>>]

NoPrediction == [batch |-> 0, shape |-> <<>>, value |-> 0]

\* a directory entry of the destination: absent, or holding frame images
NoDir == [exists |-> FALSE, frames |-> {}]

Dir(frames) == [exists |-> TRUE, frames |-> frames]

\* the source videos the script is run on
Sources == {"a.mp4", "b.mp4"}

\* a source path: no such file, or a file with its bytes
NoFile == [exists |-> FALSE, content |-> <<>>]

File(content) == [exists |-> TRUE, content |-> content]

NoRun == [source |-> None, at |-> "idle", file_hash |-> None, before |-> NoDir]

Running == ~failed /\ pc <= Len(Program)

cur == Program[pc]

Node(layer, inputs, shape) ==
    [layer |-> layer, inputs |-> inputs, shape |-> shape,
     block |-> cur.block, name |-> cur.name]

\* the call returns: the new nodes are in the graph, the last is bound to the
\* target; Sequential.add also makes it the model's output
Emit(new) ==
    /\ nodes' = nodes \o new
    /\ env' = [env EXCEPT ![cur.target] = Len(nodes) + Len(new)]
    /\ model' = IF model.sequential
                THEN [model EXCEPT !.output = Len(nodes) + Len(new),
                                   !.inputs = IF Len(new) = 2 THEN <<Len(nodes) + 1>> ELSE @]
                ELSE model
    /\ pc' = pc + 1
    /\ UNCHANGED <<builder, failed, prediction>>

\* the shape of the tensor the call is applied to
InShape == nodes[env[cur.args[1]]].shape

\* layer(x): one node consuming x, with the given output shape
Unary(shape) == Emit(<< Node(cur.layer, <<env[cur.args[1]]>>, shape) >>)

SameShape(layer, shape) == shape

InputCall ==
    /\ Running /\ cur.layer.kind = "Input"
    /\ Emit(<< Node(cur.layer, <<>>, cur.layer.shape) >>)
    /\ UNCHANGED fsVars

\* the first layer added to a Sequential carries input_shape: an input layer
\* is created for it
Conv2DCall ==
    /\ Running /\ cur.layer.kind = "Conv2D"
    /\ IF env[cur.args[1]] = 0 /\ "input_shape" \in DOMAIN cur.layer
       THEN Emit(<< Node(Input(cur.layer.input_shape, "conv2d_input"), <<>>,
                         cur.layer.input_shape),
                    Node(cur.layer, <<Len(nodes) + 1>>,
                         Conv2D_output_shape(cur.layer, cur.layer.input_shape)) >>)
       ELSE Unary(Conv2D_output_shape(cur.layer, InShape))
    /\ UNCHANGED fsVars

Conv2DTransposeCall ==
    /\ Running /\ cur.layer.kind = "Conv2DTranspose"
    /\ Unary(Conv2DTranspose_output_shape(cur.layer, InShape))
    /\ UNCHANGED fsVars

BatchNormalizationCall ==
    /\ Running /\ cur.layer.kind = "BatchNormalization"
    /\ Unary(SameShape(cur.layer, InShape))
    /\ UNCHANGED fsVars

AveragePooling2DCall ==
    /\ Running /\ cur.layer.kind = "AveragePooling2D"
    /\ Unary(AveragePooling2D_output_shape(cur.layer, InShape))
    /\ UNCHANGED fsVars

\* Add()([a, b]) raises at construction when the shapes differ
AddCall ==
    /\ Running /\ cur.layer.kind = "Add"
    /\ LET a == env[cur.args[1]]
           b == env[cur.args[2]]
       IN IF nodes[a].shape = nodes[b].shape
          THEN Emit(<< Node(cur.layer, <<a, b>>, nodes[a].shape) >>)
          ELSE /\ failed' = TRUE
               /\ UNCHANGED <<builder, pc, nodes, env, model, prediction>>
    /\ UNCHANGED fsVars

ActivationCall ==
    /\ Running /\ cur.layer.kind = "Activation"
    /\ Unary(SameShape(cur.layer, InShape))
    /\ UNCHANGED fsVars

LeakyReLUCall ==
    /\ Running /\ cur.layer.kind = "LeakyReLU"
    /\ Unary(SameShape(cur.layer, InShape))
    /\ UNCHANGED fsVars

LambdaCall ==
    /\ Running /\ cur.layer.kind = "Lambda"
    /\ Unary(SameShape(cur.layer, InShape))
    /\ UNCHANGED fsVars

ScaleCall ==
    /\ Running /\ cur.layer.kind = "Scale"
    /\ Unary(SameShape(cur.layer, InShape))
    /\ UNCHANGED fsVars

SequentialCall ==
    /\ Running /\ cur.layer.kind = "Sequential"
    /\ model' = [NoModel EXCEPT !.created = TRUE, !.sequential = TRUE]
    /\ pc' = pc + 1
    /\ UNCHANGED <<builder, nodes, env, failed, prediction>>
    /\ UNCHANGED fsVars

ModelCall ==
    /\ Running /\ cur.layer.kind = "Model"
    /\ model' = [NoModel EXCEPT !.created = TRUE,
                                !.inputs = [i \in 1..Len(cur.layer.inputs) |->
                                               env[cur.layer.inputs[i]]],
                                !.output = env[cur.layer.outputs]]
    /\ pc' = pc + 1
    /\ UNCHANGED <<builder, nodes, env, failed, prediction>>
    /\ UNCHANGED fsVars

compile ==
    /\ Running /\ cur.layer.kind = "compile"
    /\ model.created
    /\ model' = [model EXCEPT !.compiled = TRUE, !.loss = cur.layer.loss,
                              !.optimizer = cur.layer.optimizer,
                              !.metrics = cur.layer.metrics]
    /\ pc' = pc + 1
    /\ UNCHANGED <<builder, nodes, env, failed, prediction>>
    /\ UNCHANGED fsVars

\* the returned graph evaluated on a batch of b samples
predict ==
    /\ ~failed /\ pc > Len(Program) /\ model.compiled
    /\ \E b \in 1..MaxBatch, z \in (-MaxPre)..MaxPre :
          prediction' = [batch |-> b,
                         shape |-> <<b>> \o nodes[model.output].shape,
                         value |-> Eval(model.output, z * 1000)]
    /\ UNCHANGED <<builder, pc, nodes, env, model, failed>>
    /\ UNCHANGED fsVars

Init ==
    /\ builder \in Builders
    /\ pc = 1
    /\ nodes = <<>>
    /\ env = [v \in PyVars |-> 0]
    /\ model = NoModel
    /\ failed = FALSE
    /\ prediction = NoPrediction
    /\ files = [s \in Sources |-> NoFile]
    /\ destination = [exists |-> FALSE, entries |-> <<>>]
    /\ run = NoRun
    /\ finished = <<>>

Next ==
    \/ InputCall
    \/ Conv2DCall
    \/ Conv2DTransposeCall
    \/ BatchNormalizationCall
    \/ AveragePooling2DCall
    \/ AddCall
    \/ ActivationCall
    \/ LeakyReLUCall
    \/ LambdaCall
    \/ ScaleCall
    \/ SequentialCall
    \/ ModelCall
    \/ compile
    \/ predict

Spec == Init /\ [][Next]_vars

-----------------------------------------------------------------------------
(* scripts/prepare_dataset.py                                              *)

Bytes == {0, 1}

RECURSIVE SeqsUpTo(_)
SeqsUpTo(n) ==
    IF n = 0 THEN {<<>>}
    ELSE LET shorter == SeqsUpTo(n - 1)
         IN shorter \cup {Append(c, b) : c \in {x \in shorter : Len(x) = n - 1}, b \in Bytes}

Contents == SeqsUpTo(MaxFileLen)

\* f.read(8192)
ChunkSize == 8192

\* digest.update(chunk): blake2b is collision resistant; the model's digest
\* is an injective code of the bytes fed so far
RECURSIVE update(_, _)
update(digest, chunk) ==
    IF chunk = <<>> THEN digest
    ELSE update(digest * (Cardinality(Bytes) + 1) + Head(chunk) + 1, Tail(chunk))

\* for chunk in iter(lambda: f.read(8192), b""): digest.update(chunk)
RECURSIVE read_chunks(_, _)
read_chunks(digest, rest) ==
    IF rest = <<>> THEN digest
    ELSE LET n == IF Len(rest) < ChunkSize THEN Len(rest) ELSE ChunkSize
         IN read_chunks(update(digest, SubSeq(rest, 1, n)), SubSeq(rest, n + 1, Len(rest)))

\* digest.hexdigest()
hash_file(content) == ToString(read_chunks(0, content))

Digests == {hash_file(c) : c \in Contents}

\* the frame images 000001.png .. of a directory holding the first n frames
Frames(n) == 1..n

\* destination.mkdir(exist_ok=True)
mkdir_exist_ok(dest, name) ==
    IF ~dest.exists THEN "FileNotFoundError" ELSE None

\* destination.mkdir(): no parents, no exist_ok
mkdir_error(dest, name) ==
    IF ~dest.exists THEN "FileNotFoundError"
    ELSE IF dest.entries[name].exists THEN "FileExistsError"
    ELSE None

Finish(outcome, error) ==
    /\ finished' = Append(finished,
                          [source |-> run.source, file_hash |-> run.file_hash,
                           outcome |-> outcome, error |-> error,
                           before |-> run.before,
                           after |-> IF run.file_hash = None THEN NoDir
                                     ELSE destination'.entries[run.file_hash]])
    /\ run' = NoRun

\* python prepare_dataset.py source destination
main ==
    /\ run.at = "idle"
    /\ Len(finished) < MaxRuns
    /\ \E source \in Sources : run' = [NoRun EXCEPT !.source = source, !.at = "hash_file"]
    /\ UNCHANGED <<files, destination, finished>>
    /\ UNCHANGED graphVars

\* file_hash = hash_file(args.source)
main_hash_file ==
    /\ run.at = "hash_file"
    /\ IF ~files[run.source].exists
       THEN Finish("hash_file", "FileNotFoundError")
       ELSE /\ run' = [run EXCEPT !.file_hash = hash_file(files[run.source].content),
                                  !.at = "mkdir"]
            /\ UNCHANGED finished
    /\ UNCHANGED <<files, destination>>
    /\ UNCHANGED graphVars

\* destination = Path(args.destination) / file_hash; destination.mkdir()
main_mkdir ==
    /\ run.at = "mkdir"
    /\ LET error == mkdir_error(destination, run.file_hash)
           seen == [run EXCEPT !.before = IF destination.exists
                                          THEN destination.entries[run.file_hash]
                                          ELSE NoDir]
       IN IF error # None
          THEN /\ destination' = destination
               /\ finished' = Append(finished,
                                     [source |-> run.source, file_hash |-> run.file_hash,
                                      outcome |-> "mkdir", error |-> error,
                                      before |-> seen.before,
                                      after |-> seen.before])
               /\ run' = NoRun
          ELSE /\ destination' = [destination EXCEPT !.entries[run.file_hash] = Dir({})]
               /\ run' = [seen EXCEPT !.at = "ffmpeg"]
               /\ UNCHANGED finished
    /\ UNCHANGED files
    /\ UNCHANGED graphVars

\* ffmpeg writes the next numbered frame image
ffmpeg_frame ==
    /\ run.at = "ffmpeg"
    /\ Cardinality(destination.entries[run.file_hash].frames) < MaxFrames
    /\ destination' = [destination EXCEPT !.entries[run.file_hash].frames =
                          Frames(Cardinality(@) + 1)]
    /\ UNCHANGED <<files, run, finished>>
    /\ UNCHANGED graphVars

\* ffmpeg exits: FFmpeg.run() returns, or raises on a non-zero exit code
ffmpeg_exit ==
    /\ run.at = "ffmpeg"
    /\ destination' = destination
    /\ \/ Finish("ok", None)
       \/ Finish("ffmpeg", "FFRuntimeError")
    /\ UNCHANGED files
    /\ UNCHANGED graphVars

DatasetInit ==
    /\ files \in [Sources -> {NoFile} \cup {File(c) : c \in Contents}]
    /\ \E exists \in BOOLEAN :
          destination = [exists |-> exists, entries |-> [d \in Digests |-> NoDir]]
    /\ run = NoRun
    /\ finished = <<>>
    /\ builder = None
    /\ pc = 1
    /\ nodes = <<>>
    /\ env = [v \in PyVars |-> 0]
    /\ model = NoModel
    /\ failed = FALSE
    /\ prediction = NoPrediction

DatasetNext ==
    \/ main
    \/ main_hash_file
    \/ main_mkdir
    \/ ffmpeg_frame
    \/ ffmpeg_exit

DatasetSpec == DatasetInit /\ [][DatasetNext]_vars

-----------------------------------------------------------------------------
(* Properties.                                                             *)

Temporal == builder = "previous_frame_input"

Classification == builder = "l_to_ab"

Done == ~failed /\ pc > Len(Program)

Ids == DOMAIN nodes

Kind(n) == nodes[n].layer.kind

Height(n) == nodes[n].shape[1]

Width(n) == nodes[n].shape[2]

Channels(n) == nodes[n].shape[3]

\* the nodes that consume node n's output
Consumers(n) == {m \in Ids : \E i \in DOMAIN nodes[m].inputs : nodes[m].inputs[i] = n}

\* the nodes of block b, and its first and last node
InBlock(b) == {n \in Ids : nodes[n].block = b}

FirstOf(b) == CHOOSE n \in InBlock(b) : \A m \in InBlock(b) : n <= m

LastOf(b) == CHOOSE n \in InBlock(b) : \A m \in InBlock(b) : m <= n

\* the skip-connection adds: the adds of decoder blocks 8, 9 and 10
SkipAdds == {n \in Ids : Kind(n) = "Add" /\ nodes[n].block \in 8..10}

SkipSource(b) ==
    CASE b = 8 -> "conv3_3_norm" [] b = 9 -> "conv2_2norm" [] b = 10 -> "conv1_2norm"

\* C1: in the graph of previous_frame_input(), each of the three skip adds
\* (blocks 8, 9, 10) receives the block's transposed-convolution output and
\* the adapter convolution of conv3_3norm, conv2_2norm, conv1_2norm, and the
\* two have the same height, width and channel count (construction never
\* fails on a shape mismatch).
C1_SkipAddsAgree ==
    Temporal =>
        /\ ~failed
        /\ \A n \in SkipAdds :
              LET up == nodes[n].inputs[1]
                  adapter == nodes[n].inputs[2]
                  source == nodes[adapter].inputs[1]
              IN /\ Kind(up) = "Conv2DTranspose"
                 /\ nodes[up].block = nodes[n].block
                 /\ Kind(adapter) = "Conv2D"
                 /\ Kind(source) = "BatchNormalization"
                 /\ nodes[source].name = SkipSource(nodes[n].block)
                 /\ Height(up) = Height(adapter)
                 /\ Width(up) = Width(adapter)
                 /\ Channels(up) = Channels(adapter)
        /\ Done => \A b \in 8..10 : Cardinality(SkipAdds \cap InBlock(b)) = 1

C1_Witness == Temporal /\ Done /\ Cardinality(SkipAdds) = 3

\* C2: previous_frame_input() returns a graph with exactly two inputs,
\* state_input of shape 256x256x3 and grayscale_input of shape 256x256x1, and
\* one output of shape 256x256x2; evaluated on a batch of any size b the
\* output has shape b x 256 x 256 x 2.
C2_TemporalSignature ==
    Temporal /\ model.compiled =>
        /\ Len(model.inputs) = 2
        /\ {n \in Ids : Kind(n) = "Input"} = {model.inputs[1], model.inputs[2]}
        /\ nodes[model.inputs[1]].layer.input_name = "state_input"
        /\ nodes[model.inputs[1]].shape = <<256, 256, 3>>
        /\ nodes[model.inputs[2]].layer.input_name = "grayscale_input"
        /\ nodes[model.inputs[2]].shape = <<256, 256, 1>>
        /\ nodes[model.output].shape = <<256, 256, 2>>
        /\ prediction.batch # 0 => prediction.shape = <<prediction.batch, 256, 256, 2>>

C2_Witness == Temporal /\ model.compiled /\ prediction.batch > 1

\* C3: the temporal graph ends with a 1x1 convolution whose activation is
\* tanh, then the scale by 100, and nothing consumes the scale's output;
\* every output value lies in [-100, 100] (values are in thousandths).
C3_OutputRange ==
    Temporal /\ model.compiled =>
        /\ Kind(model.output) = "Scale"
        /\ nodes[model.output].layer.factor = 100
        /\ Consumers(model.output) = {}
        /\ LET last == nodes[model.output].inputs[1]
           IN /\ Kind(last) = "Conv2D"
              /\ nodes[last].layer.kernel_size = 1
              /\ nodes[last].layer.activation = "tanh"
        /\ prediction.batch # 0 =>
              /\ prediction.value >= -(100 * 1000)
              /\ prediction.value <= 100 * 1000

C3_Witness ==
    /\ Temporal /\ model.compiled
    /\ prediction.batch # 0
    /\ prediction.value = 100 * 1000

\* the transposed convolution that begins decoder block b upsamples by two
\* with kernel 4 and stride 2, from the output of the preceding block
Upsamples(b) ==
    LET n == FirstOf(b)
        prev == nodes[n].inputs[1]
    IN /\ Kind(n) = "Conv2DTranspose"
       /\ nodes[n].layer.strides = 2
       /\ nodes[n].layer.kernel_size = 4
       /\ prev = LastOf(b - 1)
       /\ Height(n) = 2 * Height(prev)
       /\ Width(n) = 2 * Width(prev)

\* C4 as stated: each of decoder blocks 8, 9 and 10 begins with a stride-2
\* kernel-4 transposed convolution that doubles the resolution and outputs
\* half the channel count of the preceding block.
C4_HalvesEveryBlock ==
    Temporal =>
        \A b \in 8..10 : InBlock(b) # {} =>
            /\ Upsamples(b)
            /\ 2 * Channels(FirstOf(b)) = Channels(LastOf(b - 1))

\* C4, amended: each of decoder blocks 8, 9 and 10 begins with a stride-2
\* kernel-4 transposed convolution that doubles the resolution; it halves the
\* channel count of the preceding block in blocks 8 and 9 (512 -> 256 -> 128)
\* and keeps it at 128 in block 10.
C4_HalvesUntil128 ==
    Temporal =>
        \A b \in 8..10 : InBlock(b) # {} =>
            /\ Upsamples(b)
            /\ b \in {8, 9} => 2 * Channels(FirstOf(b)) = Channels(LastOf(b - 1))
            /\ b = 10 => /\ Channels(FirstOf(b)) = Channels(LastOf(b - 1))
                         /\ Channels(FirstOf(b)) = 128

C4_Witness == Temporal /\ Done /\ \A b \in 8..10 : InBlock(b) # {}

\* C5: in the graph of l_to_ab(), block 8 (a stride-2 kernel-4 convolution and
\* two 3x3 convolutions, 256 channels) has a larger output resolution than
\* the block 7 output it consumes, and the final output is below 224x224
\* with 2 channels.
C5_Block8Upsamples ==
    Classification /\ Done =>
        /\ nodes[FirstOf(8)].layer.strides = 2
        /\ nodes[FirstOf(8)].layer.kernel_size = 4
        /\ \A n \in InBlock(8) : Kind(n) = "Conv2D" => Channels(n) = 256
        /\ Height(LastOf(8)) > Height(LastOf(7))
        /\ Width(LastOf(8)) > Width(LastOf(7))
        /\ Height(model.output) < 224
        /\ Width(model.output) < 224
        /\ Channels(model.output) = 2

\* the position of convolution n among the convolutions of its block
Position(n) ==
    Cardinality({m \in InBlock(nodes[n].block) : Kind(m) = "Conv2D" /\ m <= n})

EncoderConvs == {n \in Ids : Kind(n) = "Conv2D" /\ nodes[n].block \in 1..7}

\* C6 as stated: in the graph of l_to_ab(), the stride-2 convolutions of
\* encoder blocks 1-7 are exactly the second convolution of blocks 1, 2, 3.
C6_SecondConvStrided ==
    Classification =>
        \A n \in EncoderConvs :
            IF nodes[n].block \in 1..3 /\ Position(n) = 2
            THEN nodes[n].layer.strides = 2
            ELSE nodes[n].layer.strides = 1

\* C6, amended: in the graph of l_to_ab(), the stride-2 convolutions of
\* encoder blocks 1-7 are exactly the last convolution of blocks 1, 2 and 3
\* (the second of blocks 1 and 2, the third of block 3); each halves the
\* resolution and every other convolution of blocks 1-7 keeps it.
C6_LastConvStrided ==
    Classification =>
        \A n \in EncoderConvs :
            LET b == nodes[n].block
                in == nodes[n].inputs[1]
            IN IF b \in 1..3 /\ Position(n) = (IF b = 3 THEN 3 ELSE 2)
               THEN /\ nodes[n].layer.strides = 2
                    /\ 2 * Height(n) = Height(in)
                    /\ 2 * Width(n) = Width(in)
               ELSE /\ nodes[n].layer.strides = 1
                    /\ Height(n) = Height(in)
                    /\ Width(n) = Width(in)

C6_Witness ==
    /\ Classification /\ Done
    /\ \E n \in EncoderConvs : nodes[n].block = 3 /\ Position(n) = 3

Pools == {n \in Ids : Kind(n) = "AveragePooling2D"}

EncoderWidth(b) ==
    CASE b = 1 -> 64 [] b = 2 -> 128 [] b = 3 -> 256 [] b \in 4..7 -> 512

\* C7: in the temporal graph the main path is pooled by two exactly three
\* times, after the last convolution of blocks 1, 2 and 3, so blocks 4-7 all
\* work at 32x32; the convolutions of blocks 1-7 are 64, 128, 256, 512, 512,
\* 512, 512 wide; dilation rate 2 is used by every convolution of blocks 5
\* and 6 and by no other.
C7_EncoderSchedule ==
    Temporal =>
        /\ \A p \in Pools :
              LET in == nodes[p].inputs[1]
                  b == nodes[in].block
              IN /\ b \in 1..3
                 /\ Kind(in) = "Conv2D"
                 /\ \A m \in InBlock(b) : Kind(m) = "Conv2D" => m <= in
                 /\ \A q \in Pools : nodes[nodes[q].inputs[1]].block = b => q = p
                 /\ 2 * Height(p) = Height(in)
                 /\ 2 * Width(p) = Width(in)
        /\ \A b \in 2..4 : InBlock(b) # {} =>
              /\ nodes[FirstOf(b)].inputs[1] \in Pools
              /\ nodes[nodes[nodes[FirstOf(b)].inputs[1]].inputs[1]].block = b - 1
        /\ Done => Cardinality(Pools) = 3
        /\ \A n \in Ids : nodes[n].block \in 4..7 => Height(n) = 32 /\ Width(n) = 32
        /\ \A n \in Ids : Kind(n) = "Conv2D" /\ nodes[n].block \in 1..7 =>
              Channels(n) = EncoderWidth(nodes[n].block)
        /\ \A n \in Ids : Kind(n) \in {"Conv2D", "Conv2DTranspose"} =>
              nodes[n].layer.dilation_rate = (IF nodes[n].block \in {5, 6} THEN 2 ELSE 1)

C7_Witness ==
    /\ Temporal /\ Done
    /\ \E n \in InBlock(5) : Kind(n) = "Conv2D"
    /\ \E n \in InBlock(7) : Kind(n) = "Conv2D"

Norms == {n \in Ids : Kind(n) = "BatchNormalization"}

\* the skip adapters: the convolutions whose output is the second operand of
\* a skip add
Adapters == {nodes[a].inputs[2] : a \in SkipAdds}

\* C9: in the temporal graph the normalization of blocks 1, 2 and 3 is a side
\* branch: only the skip adapter convolution consumes it, and the pooling that
\* feeds the next block consumes the block's un-normalized convolution
\* output; the normalization of blocks 4-7 is on the main path and feeds the
\* next block.
C9_NormSideBranch ==
    Temporal =>
        /\ \A n \in Norms : nodes[n].block \in 1..3 =>
              /\ \A m \in Consumers(n) :
                    /\ Kind(m) = "Conv2D"
                    /\ nodes[m].block \in 8..10
                    /\ Consumers(m) # {} => m \in Adapters
              /\ Done => Cardinality(Consumers(n)) = 1
              /\ \A p \in Pools : nodes[nodes[p].inputs[1]].block = nodes[n].block =>
                    /\ nodes[p].inputs = nodes[n].inputs
                    /\ Kind(nodes[p].inputs[1]) = "Conv2D"
        /\ \A n \in Norms : nodes[n].block \in 4..7 /\ InBlock(nodes[n].block + 1) # {} =>
              /\ nodes[FirstOf(nodes[n].block + 1)].inputs = <<n>>
              /\ Consumers(n) = {FirstOf(nodes[n].block + 1)}
        /\ Done => \A b \in 1..7 : Cardinality(Norms \cap InBlock(b)) = 1

C9_Witness ==
    /\ Temporal /\ Done
    /\ \A b \in 1..3 : \E n \in Norms \cap InBlock(b) : Consumers(n) \subseteq Adapters
    /\ Cardinality(Pools) = 3

CustomInitialized(n) ==
    /\ nodes[n].layer.kernel_initializer = custom_initializer.kernel_initializer
    /\ nodes[n].layer.bias_initializer = custom_initializer.bias_initializer

\* C10: in the temporal graph every shortcut (skip adapter) convolution and
\* every transposed convolution is built with the custom initializer (normal
\* kernel weights of standard deviation 0.01, biases of one).
C10_CustomInitializer ==
    Temporal =>
        \A n \in Ids :
            \/ Kind(n) = "Conv2DTranspose"
            \/ Kind(n) = "Conv2D" /\ nodes[n].name = "shortcut"
            => CustomInitialized(n)

\* a run of the script that reached mkdir while the hash-named subdirectory
\* existed
FoundExisting(r) == r.before.exists

\* C8: a run of main() for a source whose hash-named subdirectory already
\* exists fails at mkdir, before frame extraction starts, and leaves the
\* subdirectory's contents as they were; so no run succeeds on a source that
\* was run before, also when the earlier run created the directory and its
\* extraction failed.
C8_NoSecondRun ==
    /\ run.at = "ffmpeg" => ~FoundExisting(run)
    /\ \A j \in DOMAIN finished :
          /\ FoundExisting(finished[j]) =>
                /\ finished[j].outcome = "mkdir"
                /\ finished[j].error = "FileExistsError"
                /\ finished[j].after = finished[j].before
          /\ \A i \in 1..(j - 1) :
                finished[i].source = finished[j].source =>
                    /\ finished[j].outcome # "ok"
                    /\ finished[i].outcome \in {"ok", "ffmpeg"} =>
                          /\ finished[j].outcome = "mkdir"
                          /\ finished[j].after = finished[i].after

C8_Witness ==
    \E i, j \in DOMAIN finished :
        /\ i < j
        /\ finished[i].source = finished[j].source
        /\ finished[i].outcome = "ffmpeg"
        /\ finished[i].after.frames # {}
        /\ finished[j].outcome = "mkdir"
        /\ finished[j].after = finished[i].after

====
